---- MODULE Spec2Model ----
(***************************************************************************)
(* State-machine model of the eurocore cog (src/cogs/eurocore.py): the     *)
(* per-user session cache (get_user), the submission path (dispatch), the  *)
(* Job record with its status refresh (Job.update) and the recurring       *)
(* poll_jobs task that sweeps the dict of tracked jobs.                    *)
(*                                                                         *)
(* Every `await` of the source is a point where the single cooperative     *)
(* scheduler may run another coroutine, so every action below runs from    *)
(* one suspension point of one coroutine to its next one.                  *)
(***************************************************************************)
EXTENDS Integers, Sequences, FiniteSets

(* ---------------------------- bounds ----------------------------------- *)
\* number of dispatch command invocations (each constructs at most one Job)
MaxInv == 2
\* number of executions of the poll_jobs body
MaxTicks == 2

(* ------------------------ program constants ---------------------------- *)
\* timedelta(hours=12) in get_user
TTL_HOURS == 12

None == 0
NoError == "None"

Users == {1}
Commands == {"add", "edit", "delete"}
Statuses == {"queued", "success", "failure"}
Terminal == {"success", "failure"}
\* instants the remote API reports in created_at / modified_at
Times == {0, 1}
\* readings of datetime.now(), in hours
Clock == {0, TTL_HOURS, TTL_HOURS + 1}
\* the keys Job.update reads from the response, in the order it reads them
UpdateKeys == <<"status", "modified_at", "dispatch_id", "error">>

VARIABLES
    now,        \* datetime.now(), hours
    users,      \* the User objects, by object identity (index)
    user_list,  \* bot.user_list: platform identity -> User object (None if absent)
    inv,        \* the command invocations and where each is suspended
    heap,       \* the Job objects, by object identity (index)
    jobs,       \* Eurocore.jobs: the dict, as its values in insertion order
    msgs,       \* per Job object: the embed its message shows (<<>>: no message
                \* yet) and the number of pings sent in reply to it
    loop,       \* state of the poll_jobs task
    ready,      \* the bot has signalled readiness
    stopNext,   \* Loop.stop() was requested
    sweep,      \* the for-loop of poll_jobs: iterator and suspension point
    ticks,      \* executions of the poll_jobs body so far
    tick        \* record of the current / last execution of the body

vars == <<now, users, user_list, inv, heap, jobs, msgs, loop, ready, stopNext,
          sweep, ticks, tick>>

Range(s) == {s[k] : k \in 1..Len(s)}

(* ------------------------------ Job ------------------------------------ *)

\* what the remote API puts in dispatch_id / error for a status (spec section 3)
DocIdOf(st) == IF st = "success" THEN 9001 ELSE None
ErrorOf(st) == IF st = "failure" THEN "invalid title" ELSE NoError
ActionOf(cmd) == IF cmd = "delete" THEN "remove" ELSE cmd

\* a JobDescriptor as the remote API returns it
Descriptor(id, action, created, modified, st) ==
    [id |-> id, action |-> action, created_at |-> created,
     modified_at |-> modified, status |-> st,
     dispatch_id |-> DocIdOf(st), error |-> ErrorOf(st)]

\* Job.__init__
NewJob(user, d, ping) ==
    [id |-> d.id, user |-> user, action |-> d.action,
     created_at |-> d.created_at, modified_at |-> d.modified_at,
     status |-> d.status, dispatch_id |-> d.dispatch_id, error |-> d.error,
     ping_on_completion |-> ping, message |-> None]

\* Job.set_message
SetMessage(job, m) == [job EXCEPT !.message = m]

\* Job.embed: the fields of the Job the rendered message shows; the link to
\* the dispatch only when there is a dispatch_id and the action is not remove
Embed(job) ==
    [id |-> job.id, action |-> job.action, status |-> job.status,
     created_at |-> job.created_at, modified_at |-> job.modified_at,
     link |-> IF job.dispatch_id # None /\ job.action # "remove"
              THEN job.dispatch_id ELSE None,
     error |-> job.error, user |-> job.user]

ApplyUpdateCreated(job, d, bad) ==
    LET done(k) == bad = 0 \/ k < bad
    IN [job EXCEPT
          !.status      = IF done(1) THEN d.status ELSE @,
          !.created_at  = IF done(2) THEN d.modified_at ELSE @,
          !.modified_at = IF done(2) THEN d.modified_at ELSE @,
          !.dispatch_id = IF done(3) THEN d.dispatch_id ELSE @,
          !.error       = IF done(4) THEN d.error ELSE @]

\* The assignments of Job.update, in source order. `bad` is the position in
\* UpdateKeys of the first key the payload lacks or whose value does not parse
\* (0: none): the assignments before it have run when the exception is raised.
ApplyUpdate(job, d, bad) ==
    LET done(k) == bad = 0 \/ k < bad
    IN [job EXCEPT
          !.status      = IF done(1) THEN d.status ELSE @,
          !.modified_at = IF done(2) THEN d.modified_at ELSE @,
          !.dispatch_id = IF done(3) THEN d.dispatch_id ELSE @,
          !.error       = IF done(4) THEN d.error ELSE @]

(* --------------------------- sessions ---------------------------------- *)

StaleFromTTL(u) == now - u.last_login >= TTL_HOURS

\* datetime.now() - user.last_login > timedelta(hours=12)
Stale(u) == now - u.last_login > TTL_HOURS

\* plain: the attachment of the command is text/plain (TRUE when it has none)
IdleInv == [pc |-> "new", user |-> None, cmd |-> "", ping |-> FALSE,
            plain |-> TRUE, session |-> None, job |-> None]
\* the coroutine of an invocation has returned ("done") or has raised and
\* ErrorHandler.on_error has reported the exception to the user ("rejected"
\* for the commands.UserInputError of the content-type test, else "failed")
EndInv(outcome) == [IdleInv EXCEPT !.pc = outcome]

(* -------------------- get_user and the login modal --------------------- *)

\* get_user from `user = self.bot.user_list[...]` on, with user_list ul and
\* User objects us: the cached User is looked up, a stale one is renewed
\* (await bot.sign_in), a fresh one is returned and dispatch sends its HTTP
\* request with that user's token.
AfterLookup(r, ul, us) ==
    IF ul[r.user] = None
    THEN EndInv("failed")                         \* KeyError
    ELSE IF Stale(us[ul[r.user]])
         THEN [r EXCEPT !.pc = "signin", !.session = ul[r.user]]
         ELSE [r EXCEPT !.pc = "request", !.session = ul[r.user]]

\* get_user up to its first suspension point
GetUser(r) ==
    IF user_list[r.user] = None
    THEN [r EXCEPT !.pc = "modal"]                \* send_modal, modal.wait()
    ELSE AfterLookup(r, user_list, users)

\* LoginModal.on_submit with a successful bot.sign_in: a new User object,
\* signed in now, registered under the identity
LoggedIn(u) == Append(users, [id |-> u, token |-> 1, last_login |-> now])

\* bot.sign_in(user) succeeding on a cached User: token replaced in place
Renewed(s) == [users EXCEPT ![s].token = @ + 1, ![s].last_login = now]

\* the locals of a command that was just invoked
Invoked(u, cmd, ping, textPlain) ==
    [IdleInv EXCEPT !.user = u, !.cmd = cmd, !.ping = ping,
                    !.plain = (cmd = "delete") \/ textPlain]

StartCommandUnchecked(i, u, cmd, ping, textPlain) ==
    /\ inv[i].pc = "new"
    /\ \A k \in 1..(i - 1) : inv[k].pc # "new"
    /\ inv' = [inv EXCEPT ![i] = GetUser(Invoked(u, cmd, ping, textPlain))]
    /\ UNCHANGED <<now, users, user_list, heap, jobs, msgs, loop, ready,
                   stopNext, sweep, ticks, tick>>

\* the add / edit / delete commands up to the first suspension of dispatch
StartCommand(i, u, cmd, ping, textPlain) ==
    /\ inv[i].pc = "new"
    /\ \A k \in 1..(i - 1) : inv[k].pc # "new"
    /\ inv' = [inv EXCEPT ![i] =
                 IF cmd \in {"add", "edit"} /\ ~textPlain
                 THEN EndInv("rejected")          \* commands.UserInputError
                 ELSE GetUser(Invoked(u, cmd, ping, textPlain))]
    /\ UNCHANGED <<now, users, user_list, heap, jobs, msgs, loop, ready,
                   stopNext, sweep, ticks, tick>>

\* modal.wait() returns in get_user: the modal was submitted and the login
\* succeeded (ok), or it was rejected, dismissed or timed out
ModalReturn(i, ok) ==
    /\ inv[i].pc = "modal"
    /\ users' = IF ok THEN LoggedIn(inv[i].user) ELSE users
    /\ user_list' = IF ok THEN [user_list EXCEPT ![inv[i].user] = Len(users) + 1]
                    ELSE user_list
    /\ inv' = [inv EXCEPT ![i] = AfterLookup(@, user_list', users')]
    /\ UNCHANGED <<now, heap, jobs, msgs, loop, ready, stopNext, sweep, ticks, tick>>

\* the /login command of an identity that has no session yet: LoginModal
\* submitted outside any dispatch command
LoginCommand(u) ==
    /\ user_list[u] = None
    /\ users' = LoggedIn(u)
    /\ user_list' = [user_list EXCEPT ![u] = Len(users) + 1]
    /\ UNCHANGED <<now, inv, heap, jobs, msgs, loop, ready, stopNext, sweep,
                   ticks, tick>>

\* `await self.bot.sign_in(user)` returns in get_user
SignInReturn(i, ok) ==
    /\ inv[i].pc = "signin"
    /\ users' = IF ok THEN Renewed(inv[i].session) ELSE users
    /\ inv' = [inv EXCEPT ![i] =
                 IF ok THEN [@ EXCEPT !.pc = "request"] ELSE EndInv("failed")]
    /\ UNCHANGED <<now, user_list, heap, jobs, msgs, loop, ready, stopNext,
                   sweep, ticks, tick>>

\* time passes
AdvanceClock(t) ==
    /\ t \in Clock
    /\ t > now
    /\ now' = t
    /\ UNCHANGED <<users, user_list, inv, heap, jobs, msgs, loop, ready,
                   stopNext, sweep, ticks, tick>>

(* ----------------------------- dispatch -------------------------------- *)

\* self.jobs[job.id] = job: a new key is appended, an existing key keeps its
\* position and gets the new value
Track(d, o) ==
    IF \E k \in 1..Len(d) : heap[d[k]].id = heap[o].id
    THEN [k \in 1..Len(d) |-> IF heap[d[k]].id = heap[o].id THEN o ELSE d[k]]
    ELSE Append(d, o)

\* ids the remote API can assign to the next job: a new one or, against its
\* contract, the id of a job that is tracked
RemoteIds == {Len(heap) + 1} \cup {heap[o].id : o \in Range(jobs)}

\* the HTTP request of dispatch returns: the response is parsed, the Job is
\* built and its embed is sent (next suspension point)
RequestReturn(i, ok, id, t, st) ==
    /\ inv[i].pc = "request"
    /\ IF ok
       THEN /\ heap' = Append(heap, NewJob(inv[i].session,
                          Descriptor(id, ActionOf(inv[i].cmd), t, t, st),
                          inv[i].ping))
            /\ msgs' = Append(msgs, [shown |-> <<>>, pings |-> 0])
            /\ inv' = [inv EXCEPT ![i].pc = "send", ![i].job = Len(heap) + 1]
       ELSE /\ inv' = [inv EXCEPT ![i] = EndInv("failed")]
            /\ UNCHANGED <<heap, msgs>>
    /\ UNCHANGED <<now, users, user_list, jobs, loop, ready, stopNext, sweep,
                   ticks, tick>>

SendReturnTracking(i, ok) ==
    /\ inv[i].pc = "send"
    /\ LET o == inv[i].job IN
       /\ heap' = IF ok THEN [heap EXCEPT ![o] = SetMessage(@, o)] ELSE heap
       /\ msgs' = IF ok THEN [msgs EXCEPT ![o].shown = <<Embed(heap[o])>>] ELSE msgs
       /\ jobs' = Track(jobs, o)
       /\ tick' = IF loop = "running"
                  THEN [tick EXCEPT !.tracked = @ \cup {o}] ELSE tick
       /\ inv' = [inv EXCEPT ![i] = EndInv(IF ok THEN "done" ELSE "failed")]
    /\ UNCHANGED <<now, users, user_list, loop, ready, stopNext, sweep, ticks>>

\* the send of the initial embed returns: set_message, then the job is tracked
SendReturn(i, ok) ==
    /\ inv[i].pc = "send"
    /\ LET o == inv[i].job IN
       IF ok
       THEN /\ heap' = [heap EXCEPT ![o] = SetMessage(@, o)]
            /\ msgs' = [msgs EXCEPT ![o].shown = <<Embed(heap[o])>>]
            /\ jobs' = Track(jobs, o)
            /\ tick' = IF loop = "running"
                       THEN [tick EXCEPT !.tracked = @ \cup {o}] ELSE tick
            /\ inv' = [inv EXCEPT ![i] = EndInv("done")]
       ELSE /\ inv' = [inv EXCEPT ![i] = EndInv("failed")]
            /\ UNCHANGED <<heap, msgs, jobs, tick>>
    /\ UNCHANGED <<now, users, user_list, loop, ready, stopNext, sweep, ticks>>

(* ---------------------------- poll_jobs -------------------------------- *)

NoSweep == [it |-> 0, used |-> 0, cur |-> None, at |-> "none"]
\* snap: the jobs tracked when the body started; applied: those whose update
\* was applied; tracked: those dispatch tracked while the body was suspended;
\* queued: those of snap whose status was queued when the body started;
\* end: how the last execution of the body ended
NoTick == [snap |-> {}, applied |-> {}, tracked |-> {}, queued |-> {},
           end |-> "none"]

KeepUnlessSuccess(d) == SelectSeq(d, LAMBDA o : heap[o].status # "success")

\* the dict comprehension that ends the body of poll_jobs
KeepQueued(d) == SelectSeq(d, LAMBDA o : heap[o].status = "queued")

\* The body of poll_jobs raised. After the exceptions tasks.loop retries on
\* (aiohttp.ClientError, OSError, asyncio.TimeoutError: kind "retry") the task
\* runs the body again; any other one ("fatal", "RuntimeError") is handed to
\* on_poll_jobs_error, which logs it and starts nothing, and ends the task.
LoopAfterError(kind) == IF kind = "retry" THEN "sleeping" ELSE "failed"

\* the task after its body returned: Loop.stop() takes effect here
LoopAfterBody == IF stopNext THEN "stopped" ELSE "sleeping"

\* cog_load: poll_jobs.start()
CogLoad ==
    /\ loop = "unloaded"
    /\ loop' = "before"
    /\ UNCHANGED <<now, users, user_list, inv, heap, jobs, msgs, ready,
                   stopNext, sweep, ticks, tick>>

\* the bot signals readiness
BotReady ==
    /\ ~ready
    /\ ready' = TRUE
    /\ UNCHANGED <<now, users, user_list, inv, heap, jobs, msgs, loop,
                   stopNext, sweep, ticks, tick>>

BeforeLoopNoWait ==
    /\ loop = "before"
    /\ loop' = LoopAfterBody
    /\ UNCHANGED <<now, users, user_list, inv, heap, jobs, msgs, ready,
                   stopNext, sweep, ticks, tick>>

\* before_poll_jobs: wait_until_ready() returns
BeforeLoopDone ==
    /\ loop = "before"
    /\ ready
    /\ loop' = LoopAfterBody
    /\ UNCHANGED <<now, users, user_list, inv, heap, jobs, msgs, ready,
                   stopNext, sweep, ticks, tick>>

\* cog_unload: poll_jobs.stop(). stop() only sets the flag the task tests
\* before its first iteration and after a body that returned: a task that has
\* not run the body yet ends there, a later one goes on to that test.
CogUnload ==
    /\ loop \in {"before", "sleeping", "running"}
    /\ ~stopNext
    /\ stopNext' = TRUE
    /\ loop' = IF loop = "sleeping" /\ ticks = 0 THEN "stopped" ELSE loop
    /\ UNCHANGED <<now, users, user_list, inv, heap, jobs, msgs, ready,
                   sweep, ticks, tick>>

\* the body of poll_jobs raised: the rest of the body, its last line
\* included, is not executed
Abort(kind) ==
    /\ loop' = LoopAfterError(kind)
    /\ sweep' = NoSweep
    /\ tick' = [NoTick EXCEPT !.end = kind]
    /\ UNCHANGED jobs

\* the for statement asks the dict iterator for its next item
NextItem ==
    IF Len(jobs) # sweep.used
    THEN Abort("RuntimeError") \* dictionary changed size during iteration
    ELSE IF sweep.it < Len(jobs)
         THEN /\ sweep' = [sweep EXCEPT !.it = @ + 1, !.cur = jobs[sweep.it + 1],
                                        !.at = "fetch"]
              /\ UNCHANGED <<jobs, loop, tick>>
         ELSE /\ jobs' = KeepQueued(jobs)
              /\ sweep' = NoSweep
              /\ tick' = [NoTick EXCEPT !.end = "normal"]
              /\ loop' = LoopAfterBody

\* the task runs the body of poll_jobs up to its first suspension point
PollStart ==
    /\ loop = "sleeping"
    /\ ticks < MaxTicks
    /\ ticks' = ticks + 1
    /\ IF jobs = <<>>
       THEN /\ jobs' = KeepQueued(jobs)
            /\ tick' = [NoTick EXCEPT !.end = "normal"]
            /\ loop' = LoopAfterBody
            /\ UNCHANGED sweep
       ELSE /\ sweep' = [it |-> 1, used |-> Len(jobs), cur |-> jobs[1], at |-> "fetch"]
            /\ tick' = [NoTick EXCEPT !.snap = Range(jobs),
                          !.queued = {o \in Range(jobs) : heap[o].status = "queued"}]
            /\ loop' = "running"
            /\ UNCHANGED jobs
    /\ UNCHANGED <<now, users, user_list, inv, heap, msgs, ready, stopNext>>

\* Job.update: the GET of the job's status returns. kind = "ok": a response
\* whose body parses; bad: the first key of UpdateKeys it lacks (0: none).
\* Otherwise the request itself failed.
FetchReturn(kind, st, t, bad) ==
    /\ loop = "running"
    /\ sweep.at = "fetch"
    /\ LET o == sweep.cur
           d == Descriptor(heap[o].id, heap[o].action, heap[o].created_at, t, st)
       IN IF kind = "ok"
          THEN /\ heap' = [heap EXCEPT ![o] = ApplyUpdate(@, d, bad)]
               /\ IF bad = 0
                  THEN /\ sweep' = [sweep EXCEPT !.at = "edit"]
                       /\ tick' = [tick EXCEPT !.applied = @ \cup {o}]
                       /\ UNCHANGED <<jobs, loop>>
                  ELSE Abort("fatal")
          ELSE /\ Abort(kind)
               /\ UNCHANGED heap
    /\ UNCHANGED <<now, users, user_list, inv, msgs, ready, stopNext, ticks>>

EditReturnSwallowing(kind) ==
    /\ loop = "running"
    /\ sweep.at = "edit"
    /\ LET o == sweep.cur IN
       /\ msgs' = IF kind = "ok"
                  THEN [msgs EXCEPT ![o].shown = <<Embed(heap[o])>>] ELSE msgs
       /\ IF heap[o].status # "queued" /\ heap[o].ping_on_completion
          THEN /\ sweep' = [sweep EXCEPT !.at = "reply"]
               /\ UNCHANGED <<jobs, loop, tick>>
          ELSE NextItem
    /\ UNCHANGED <<now, users, user_list, inv, heap, ready, stopNext, ticks>>

\* Job.update: message.edit returns; then the status test of poll_jobs
EditReturn(kind) ==
    /\ loop = "running"
    /\ sweep.at = "edit"
    /\ LET o == sweep.cur IN
       IF kind = "ok"
       THEN /\ msgs' = [msgs EXCEPT ![o].shown = <<Embed(heap[o])>>]
            /\ IF heap[o].status # "queued" /\ heap[o].ping_on_completion
               THEN /\ sweep' = [sweep EXCEPT !.at = "reply"]
                    /\ UNCHANGED <<jobs, loop, tick>>
               ELSE NextItem
       ELSE /\ Abort(kind)
            /\ UNCHANGED msgs
    /\ UNCHANGED <<now, users, user_list, inv, heap, ready, stopNext, ticks>>

\* poll_jobs: message.reply (the ping) returns
ReplyReturn(kind) ==
    /\ loop = "running"
    /\ sweep.at = "reply"
    /\ LET o == sweep.cur IN
       IF kind = "ok"
       THEN /\ msgs' = [msgs EXCEPT ![o].pings = @ + 1]
            /\ NextItem
       ELSE /\ Abort(kind)
            /\ UNCHANGED msgs
    /\ UNCHANGED <<now, users, user_list, inv, heap, ready, stopNext, ticks>>

(* -------------------------- specification ------------------------------ *)

Init ==
    /\ now = 0
    /\ users = <<>>
    /\ user_list = [u \in Users |-> None]
    /\ inv = [i \in 1..MaxInv |-> IdleInv]
    /\ heap = <<>>
    /\ jobs = <<>>
    /\ msgs = <<>>
    /\ loop = "unloaded"
    /\ ready = FALSE
    /\ stopNext = FALSE
    /\ sweep = NoSweep
    /\ ticks = 0
    /\ tick = NoTick

Outcomes == {"ok", "retry", "fatal"}

Commanding(cmds, pings, types) ==
    \E i \in 1..MaxInv, u \in Users, cmd \in cmds, ping \in pings,
       textPlain \in types : StartCommand(i, u, cmd, ping, textPlain)
ModalReturning(oks) == \E i \in 1..MaxInv, ok \in oks : ModalReturn(i, ok)
LoggingIn == \E u \in Users : LoginCommand(u)
SignInReturning == \E i \in 1..MaxInv, ok \in BOOLEAN : SignInReturn(i, ok)
ClockAdvancing == \E t \in Clock : AdvanceClock(t)
RequestReturning(oks, times, sts) ==
    \E i \in 1..MaxInv, ok \in oks, id \in RemoteIds, t \in times,
       st \in sts : RequestReturn(i, ok, id, t, st)
SendReturning(oks) == \E i \in 1..MaxInv, ok \in oks : SendReturn(i, ok)
FetchReturning(times) ==
    \E kind \in Outcomes, st \in Statuses, t \in times,
       bad \in 0..Len(UpdateKeys) : FetchReturn(kind, st, t, bad)
EditReturning == \E kind \in Outcomes : EditReturn(kind)
ReplyReturning == \E kind \in Outcomes : ReplyReturn(kind)

\* the whole program
Next ==
    \/ Commanding(Commands, BOOLEAN, BOOLEAN)
    \/ ModalReturning(BOOLEAN)
    \/ LoggingIn
    \/ SignInReturning
    \/ ClockAdvancing
    \/ RequestReturning(BOOLEAN, Times, Statuses)
    \/ SendReturning(BOOLEAN)
    \/ CogLoad
    \/ BotReady
    \/ BeforeLoopDone
    \/ CogUnload
    \/ PollStart
    \/ FetchReturning(Times)
    \/ EditReturning
    \/ ReplyReturning

Spec == Init /\ [][Next]_vars

\* The poll task and the submissions it races with. The clock stands still
\* and every submission succeeds: the session steps and the failures of a
\* submission change neither a Job nor the dict of tracked jobs.
NextPoll ==
    \/ Commanding({"delete"}, BOOLEAN, {TRUE})
    \/ LoggingIn
    \/ RequestReturning({TRUE}, {0}, {"queued"})
    \/ SendReturning({TRUE})
    \/ CogLoad
    \/ BotReady
    \/ BeforeLoopDone
    \/ PollStart
    \/ FetchReturning({1})
    \/ EditReturning
    \/ ReplyReturning

SpecPoll == Init /\ [][NextPoll]_vars

\* the commands and the session cache, with the poll task not loaded
NextSession ==
    \/ Commanding({"edit", "delete"}, {FALSE}, BOOLEAN)
    \/ ModalReturning(BOOLEAN)
    \/ LoggingIn
    \/ SignInReturning
    \/ ClockAdvancing
    \/ RequestReturning(BOOLEAN, {0}, {"queued"})
    \/ SendReturning(BOOLEAN)

SpecSession == Init /\ [][NextSession]_vars

\* the poll task, the submissions and cog_unload
NextLife ==
    \/ NextPoll
    \/ CogUnload

SpecLife == Init /\ [][NextLife]_vars

\* as NextPoll, with the remote API free in the modified_at it reports
NextFetch ==
    \/ Commanding({"delete"}, BOOLEAN, {TRUE})
    \/ LoggingIn
    \/ RequestReturning({TRUE}, {0}, {"queued"})
    \/ SendReturning({TRUE})
    \/ CogLoad
    \/ BotReady
    \/ BeforeLoopDone
    \/ PollStart
    \/ FetchReturning(Times)
    \/ EditReturning
    \/ ReplyReturning

SpecFetch == Init /\ [][NextFetch]_vars

(* ------------------------------ claims --------------------------------- *)

Objects == 1..Len(heap)
Failures == {"retry", "fatal"}

\* a step of the sweep in which the await it was suspended at (`at`) raised
AwaitFails(at) ==
    /\ loop = "running"
    /\ sweep.at = at
    /\ tick'.end \in Failures

\* C1: once a job's status is success or failure it never takes another
\* value, whatever the remote API returns on later fetches.
C1_StatusMonotone ==
    [][\A o \in Objects :
          heap[o].status \in Terminal => heap'[o].status = heap[o].status]_vars

\* C2: a job with ping_on_completion is pinged exactly once over the whole
\* run; stated here is its finitely refutable half, never a second time.
C2_PingedOnce ==
    \A o \in Objects : heap[o].ping_on_completion => msgs[o].pings <= 1

\* C3: when the fetch of one job fails, every other job of the tick's
\* snapshot has its status fetched and applied in that tick.
C3_SweepNotAborted ==
    [][AwaitFails("fetch") => tick.snap \subseteq tick.applied \cup {sweep.cur}]_vars

\* C4: a sweep during which dispatch tracked a job ends normally, or by a
\* failure of a fetch, render or ping, never because of the tracking.
C4_TrackDuringSweep ==
    [][(loop = "running" /\ loop' # "running" /\ tick.tracked # {})
          => tick'.end \in {"normal"} \cup Failures]_vars

\* C5: a failed fetch changes no field of the job, leaves it tracked with
\* status queued and renders nothing for it.
C5_FailedFetchNoChange ==
    [][AwaitFails("fetch") =>
          /\ heap'[sweep.cur] = heap[sweep.cur]
          /\ heap'[sweep.cur].status = "queued"
          /\ sweep.cur \in Range(jobs')
          /\ msgs' = msgs]_vars

\* C6: when a sweep completes, every job that was tracked before the tick
\* and is now success or failure is out of the dict, and every tracked job
\* that is still queued stays in it.
C6_SweepCompletion ==
    [][(loop = "running" /\ tick'.end = "normal") =>
          /\ \A o \in Range(jobs) \cup tick.snap :
                heap'[o].status \in Terminal => o \notin Range(jobs')
          /\ \A o \in Range(jobs) :
                heap'[o].status = "queued" => o \in Range(jobs')]_vars

\* a sweep completed, removing a finished job and keeping a queued one it
\* had refreshed
C6_Witness ==
    /\ tick.end = "normal"
    /\ \E o \in Objects, q \in Range(jobs) :
          /\ heap[o].status \in Terminal
          /\ heap[o].message # None
          /\ heap[o].id # heap[q].id
          /\ o \notin Range(jobs)
          /\ heap[q].status = "queued"
          /\ heap[q].modified_at # heap[q].created_at

\* C7: no error during a tick stops the polling for good.
C7_PollingNeverStops == loop # "failed"

\* C8: at no time are two renewal calls (bot.sign_in on the cached session)
\* of the same identity in flight.
C8_OneRenewalInFlight ==
    \A u \in Users :
       Cardinality({i \in 1..MaxInv : inv[i].pc = "signin" /\ inv[i].user = u}) <= 1

\* C9: get_user for an identity whose cached session is at most 12 hours old
\* returns that cached User, opens no login modal, does not sign in again
\* and leaves the cache as it is.
C9_FreshSessionReused ==
    [][\A i \in 1..MaxInv, u \in Users :
          (/\ inv[i].pc = "new"
           /\ inv'[i].user = u
           /\ user_list[u] # None
           /\ now - users[user_list[u]].last_login <= TTL_HOURS)
          => /\ inv'[i].pc = "request"
             /\ inv'[i].session = user_list[u]
             /\ users' = users
             /\ user_list' = user_list]_vars

\* two commands in a row got the one cached User, exactly 12 hours old and
\* never renewed
C9_Witness ==
    /\ Len(users) = 1
    /\ now - users[1].last_login = TTL_HOURS
    /\ users[1].token = 1
    /\ \A i \in 1..2 : inv[i].pc = "request" /\ inv[i].session = user_list[inv[i].user]

\* the step of the sweep in which message.reply returned without delivering
PingFails ==
    /\ loop = "running"
    /\ sweep.at = "reply"
    /\ sweep' # sweep
    /\ msgs'[sweep.cur].pings = msgs[sweep.cur].pings

\* C10: a ping that fails is not propagated: the job keeps its status, the
\* sweep goes on to the remaining jobs, and when it ends the job is removed.
C10_PingFailureContained ==
    [][PingFails =>
          /\ heap' = heap
          /\ tick'.end \notin Failures
          /\ loop' # "running" => sweep.cur \notin Range(jobs')]_vars

\* C11: no execution of the poll_jobs body starts, and none is running,
\* before the bot has signalled readiness.
C11_NoTickBeforeReady ==
    (ticks > 0 \/ loop \in {"sleeping", "running", "failed"}) => ready

\* the task is started and jobs are tracked, the bot is not ready: no tick
C11_Witness ==
    /\ loop = "before"
    /\ ~ready
    /\ jobs # <<>>
    /\ ticks = 0

\* C12: once cog_unload has requested the stop, no execution of the
\* poll_jobs body begins.
C12_NoTickAfterStop ==
    [][stopNext => ticks' = ticks]_vars

\* C13: a command whose attachment is not text/plain is rejected before
\* get_user: only a command with a text/plain attachment (or none) gets to
\* the modal, the sign-in or the request, and a rejection changes neither
\* the session cache nor the jobs.
C13_RejectedBeforeRemote ==
    [][\A i \in 1..MaxInv :
          (inv[i].pc = "new" /\ inv'[i].pc # "new") =>
             IF inv'[i].pc = "rejected"
             THEN /\ users' = users
                  /\ user_list' = user_list
                  /\ heap' = heap
                  /\ jobs' = jobs
             ELSE inv'[i].plain]_vars

\* a command was rejected and there is no session, no Job and no request
C13_Witness ==
    /\ \E i \in 1..MaxInv : inv[i].pc = "rejected"
    /\ \A i \in 1..MaxInv : inv[i].pc \in {"new", "rejected"}
    /\ users = <<>>
    /\ heap = <<>>
    /\ jobs = <<>>

\* C14: tracking a job whose id is already a key of the dict leaves the
\* dict as it is.
C14_DuplicateIgnored ==
    [][\A i \in 1..MaxInv :
          (/\ inv[i].pc = "send"
           /\ inv'[i].pc = "done"
           /\ \E o \in Range(jobs) : heap[o].id = heap[inv[i].job].id)
          => jobs' = jobs]_vars

\* C15: the modified_at of a job never decreases.
C15_ModifiedNonDecreasing ==
    [][\A o \in Objects : heap'[o].modified_at >= heap[o].modified_at]_vars

\* C16: outside a running sweep every tracked job has status queued.
C16_TrackedAreQueued ==
    loop # "running" => \A o \in Range(jobs) : heap[o].status = "queued"

\* C17: a ping is delivered only for a job with ping_on_completion, whose
\* status is terminal and was queued when this tick started.
C17_PingOnlyOnTransition ==
    [][\A o \in Objects :
          msgs'[o].pings > msgs[o].pings =>
             /\ heap[o].ping_on_completion
             /\ heap[o].status \in Terminal
             /\ o \in tick.queued]_vars

\* C18: a job the poller removes from the dict has a terminal status and
\* its message shows the job as it is, that status included.
C18_RenderedBeforeRemoval ==
    [][\A o \in Range(jobs) :
          (loop = "running" /\ loop' # "running" /\ o \notin Range(jobs')) =>
             /\ heap'[o].status \in Terminal
             /\ msgs'[o].shown = <<Embed(heap'[o])>>]_vars

\* a finished job was removed by a sweep, its message showing the failure
C18_Witness ==
    /\ tick.end = "normal"
    /\ \E o \in Objects :
          /\ heap[o].status = "failure"
          /\ heap[o].message # None
          /\ \A q \in Range(jobs) : heap[q].id # heap[o].id
          /\ msgs[o].shown = <<Embed(heap[o])>>

Frame(job) == <<job.id, job.user, job.action, job.created_at,
                job.ping_on_completion, job.message>>

\* C19: once a Job has its message, no step changes its id, user, action,
\* created_at, ping_on_completion or message, and every tracked Job has its
\* message.
C19_FrameOfRefresh ==
    [][/\ \A o \in Objects :
             heap[o].message # None => Frame(heap'[o]) = Frame(heap[o])
       /\ \A o \in Range(jobs') : heap'[o].message # None]_vars

\* a tracked job was refreshed
C19_Witness ==
    \E o \in Range(jobs) :
       /\ heap[o].message # None
       /\ heap[o].modified_at # heap[o].created_at
       /\ msgs[o].shown = <<Embed(heap[o])>>

Ended == {"failed", "rejected"}

\* C20: the dict changes only when a dispatch whose request returned a
\* descriptor and whose initial embed was sent tracks its Job; a command
\* that fails leaves the dict as it is.
C20_FailedSubmissionNoTrack ==
    [][/\ jobs' # jobs =>
             \E i \in 1..MaxInv :
                /\ inv[i].pc = "send"
                /\ inv'[i].pc = "done"
                /\ inv[i].job \in Range(jobs')
                /\ heap'[inv[i].job].message # None
                /\ msgs'[inv[i].job].shown # <<>>
       /\ \A i \in 1..MaxInv :
             (inv[i].pc \notin Ended /\ inv'[i].pc \in Ended) => jobs' = jobs]_vars

\* a Job was built, the send of its embed failed, and nothing is tracked
C20_Witness ==
    /\ heap # <<>>
    /\ jobs = <<>>
    /\ \A i \in 1..MaxInv : inv[i].pc \in {"new", "failed"}
    /\ \E i \in 1..MaxInv : inv[i].pc = "failed"

====
